---- MODULE Spec2Model ----
(***************************************************************************)
(* A model of pxe-js/cluster: the Cluster class (constructor,              *)
(* normalizeOptions, fork, start with its uncaught-error handler and its   *)
(* worker-exit listener) together with the processes it runs in: one       *)
(* primary process (id 0) and the workers it forks (ids 1, 2, ...).        *)
(*                                                                         *)
(* JavaScript values are modelled by tagged records:                       *)
(*   - an optional value carries kind = "unset" when the key is absent;    *)
(*   - a policy slot (events.error, events.exit) is "unset", a "single"    *)
(*     action string, or a "list" (an array) of action strings.            *)
(* Every process runs the same script, so the Cluster instance `cls` is    *)
(* the same in each of them and is kept once.                              *)
(*                                                                         *)
(* Listeners for the three notifications ("start", "error", "exit") are    *)
(* taken to be subscribed through Cluster.on before start() is called, so  *)
(* that emit() delivers each notification; what emit() delivers is         *)
(* recorded in the emitting process's trace.                               *)
(***************************************************************************)
EXTENDS Integers, Sequences, FiniteSets, TLC

\* ------------------------------------------------------------------ bounds
\* Largest worker count passed to the constructor, and largest CPU count.
MaxWorkers == 2
\* Longest policy array supplied in events.error / events.exit.
MaxPolicyLen == 2
\* Uncaught errors raised in one worker process.
MaxErrors == 2

\* ------------------------------------------------------- program constants
\* The port start() falls back to: listenOpts.port || 8080.
DefaultPort == 8080

VARIABLES
    pc,          \* the script's position in the primary: new, constructed, threw
    args,        \* the constructor's arguments as the caller passed them
    callerOpts,  \* the caller's options object as it is now (normalizeOptions writes to it)
    cpus,        \* cpus().length on this host
    cls,         \* the Cluster instance: app, options, instances
    proc,        \* each process: status, handler, listenPort, exitListener, exitCode
    trace,       \* each process: the effects of the Cluster's code, in program order
    observers,   \* workers on which the primary registered a disconnect observer
    pending,     \* runtime notifications queued for the primary, not yet delivered
    errs         \* each worker: uncaught errors raised so far

vars == <<pc, args, callerOpts, cpus, cls, proc, trace, observers, pending, errs>>

\* ------------------------------------------------------------ JavaScript values
Primary == 0
Workers == 1..MaxWorkers
Procs == {Primary} \cup Workers

\* Cluster.ErrorEvent and Cluster.ExitEvent.
ErrorEvent == {"exit", "continue", "throw", "log"}
ExitEvent == {"exit", "log"}

SeqsUpTo(S, n) == UNION {[1..k -> S] : k \in 0..n}

Unset == [kind |-> "unset", val |-> <<>>]
Single(v) == [kind |-> "single", val |-> <<v>>]
List(s) == [kind |-> "list", val |-> s]

\* Array.isArray(x)
IsArray(slot) == slot.kind = "list"

\* x.includes(v) behind the optional chain evOpts.error?.includes(v): undefined
\* (falsy) on an absent slot, membership on an array; on a bare string
\* String.prototype.includes finds v exactly when the string is v.
Includes(slot, v) == slot.kind # "unset" /\ \E i \in 1..Len(slot.val) : slot.val[i] = v

NoEvents == [kind |-> "unset", error |-> Unset, exit |-> Unset]
Events(e, x) == [kind |-> "record", error |-> e, exit |-> x]
NoPort == [kind |-> "unset", n |-> 0]
Port(p) == [kind |-> "number", n |-> p]
NoListen == [kind |-> "unset", port |-> NoPort]
Listen(p) == [kind |-> "record", port |-> p]
NoOptions == [kind |-> "unset", events |-> NoEvents, listen |-> NoListen]
Options(ev, l) == [kind |-> "record", events |-> ev, listen |-> l]

Undefined == [kind |-> "undefined", num |-> 0, opts |-> NoOptions]
Num(n) == [kind |-> "number", num |-> n, opts |-> NoOptions]
Obj(o) == [kind |-> "object", num |-> 0, opts |-> o]

\* JavaScript truthiness of an argument: undefined and 0 are falsy.
Truthy(a) == a.kind = "object" \/ (a.kind = "number" /\ a.num # 0)

\* --------------------------------------------------------- normalizeOptions
\* [opts.events[key]]: the one-element array holding the slot's value.
Wrap(slot) == List(<<slot.val[1]>>)

\* The for-in loop gone wrong: the value is left as it is.
NormalizeSlotKeep(slot) == slot

\* One turn of `for (const key in opts.events)`: a key that is absent is not
\* visited; a value that is not an array is replaced by [value].
NormalizeSlot(slot) ==
    IF slot.kind = "unset" THEN slot
    ELSE IF ~IsArray(slot) THEN Wrap(slot)
    ELSE slot

\* normalizeOptions filling in more than it does: a slot missing from
\* opts.events is set to the empty array.
NormalizeEventsFill(ev) ==
    LET e == IF ev.kind = "unset" THEN Events(Unset, Unset) ELSE ev
        Fill(slot) == IF slot.kind = "unset" THEN List(<<>>) ELSE NormalizeSlot(slot)
    IN  Events(Fill(e.error), Fill(e.exit))

\* `if (!opts.events) opts.events = {}` followed by the for-in loop.
NormalizeEvents(ev) ==
    LET e == IF ev.kind = "unset" THEN Events(Unset, Unset) ELSE ev
    IN  Events(NormalizeSlot(e.error), NormalizeSlot(e.exit))

\* `if (!opts.listen) opts.listen = {}`.
NormalizeListen(l) == IF l.kind = "unset" THEN Listen(NoPort) ELSE l

\* normalizeOptions(cls) on the fields it reads and writes; `inst` is
\* this.instances as the constructor left it (Undefined when never assigned).
normalizeOptions(options, inst, ncpu) ==
    LET opts == IF options.kind = "unset" THEN Options(NoEvents, NoListen) ELSE options
    IN  [options   |-> Options(NormalizeEvents(opts.events), NormalizeListen(opts.listen)),
         instances |-> IF ~Truthy(inst) THEN ncpu ELSE inst.num]

\* -------------------------------------------------------------- constructor
\* The branch on nextArg / lastArg: which argument becomes this.options and
\* which this.instances, before normalizeOptions runs.
ResolveArgs(next, last) ==
    IF Truthy(next)
    THEN IF Truthy(last)
         THEN [options |-> last.opts, instances |-> next]
         ELSE IF next.kind = "number"
              THEN [options |-> NoOptions, instances |-> next]
              ELSE [options |-> next.opts, instances |-> Undefined]
    ELSE [options |-> NoOptions, instances |-> Undefined]

\* The check gone wrong: `if (!firstArg)`, which only a missing app fails.
NotInvocableMissingOnly(first) == first = "undefined"

\* typeof firstArg !== "function"
NotInvocable(first) == first # "function"

NoCluster == [app |-> "none", options |-> NoOptions, instances |-> 0]

\* The value `new Cluster(first, next, last)` leaves in this.* when it returns.
NewCluster(first, next, last, ncpu) ==
    LET r == ResolveArgs(next, last)
        n == normalizeOptions(r.options, r.instances, ncpu)
    IN  [app |-> first, options |-> n.options, instances |-> n.instances]

\* ---------------------------------------------------------------- processes
\* One effect of the Cluster's code: op is what was done (fork, emit, on, log,
\* throw, disconnect, exit, listen) and ev the event name of an emit/on. The
\* other fields are the arguments of the call it happened in: for fork() the
\* new worker w; for handler(err) the process w it runs in and the error n;
\* for exit(worker, code, signal) the worker w, the code n and the signal
\* sig; for the listen of start() the process w and the port n.
Eff(op, ev, w, n, sig) == [op |-> op, ev |-> ev, w |-> w, n |-> n, sig |-> sig]

NoProc == [status |-> "none", started |-> FALSE, handler |-> FALSE, listen |-> NoPort,
           exitListener |-> FALSE, disconnecting |-> FALSE, code |-> 0]
Running == [NoProc EXCEPT !.status = "running"]

Alive(p) == proc[p].status = "running"

\* A runtime notification to the primary about worker w.
Note(ev, w, code, sig) == [ev |-> ev, w |-> w, code |-> code, sig |-> sig]

\* What the runtime queues for the primary when worker w's process ends with
\* `code`: the worker's disconnect and its exit, as long as the primary lives.
Death(w, code) ==
    IF Alive(Primary)
    THEN {Note("disconnect", w, 0, "null"), Note("exit", w, code, "null")}
    ELSE {}

\* ------------------------------------------------------------- Cluster.fork
\* fork() gone wrong: the "start" notification carries the cluster's first
\* worker instead of the worker just forked.
forkStaleHandle(st) ==
    LET cw == Cardinality({w \in Workers : st.proc[w].status # "none"}) + 1
    IN  [proc |-> [st.proc EXCEPT ![cw] = [NoProc EXCEPT !.status = "running"]],
         tr   |-> st.tr \o <<Eff("fork", "", cw, 0, ""),
                            Eff("emit", "start", 1, 0, ""),
                            Eff("on", "disconnect", cw, 0, "")>>,
         obs  |-> st.obs \cup {cw}]

\* fork() gone wrong: "start" is emitted before the worker is forked.
forkEmitFirst(st) ==
    LET cw == Cardinality({w \in Workers : st.proc[w].status # "none"}) + 1
    IN  [proc |-> [st.proc EXCEPT ![cw] = [NoProc EXCEPT !.status = "running"]],
         tr   |-> st.tr \o <<Eff("emit", "start", cw, 0, ""),
                            Eff("fork", "", cw, 0, ""),
                            Eff("on", "disconnect", cw, 0, "")>>,
         obs  |-> st.obs \cup {cw}]

\* fork() gone wrong: no disconnect observer is registered on the worker.
forkNoObserver(st) ==
    LET cw == Cardinality({w \in Workers : st.proc[w].status # "none"}) + 1
    IN  [proc |-> [st.proc EXCEPT ![cw] = [NoProc EXCEPT !.status = "running"]],
         tr   |-> st.tr \o <<Eff("fork", "", cw, 0, ""),
                            Eff("emit", "start", cw, 0, "")>>,
         obs  |-> st.obs]

\* cluster.fork(), this.emit("start", cw), cw.on("disconnect", ...), on the
\* primary's state st = [proc, tr, obs]; the runtime numbers workers 1, 2, ...
fork(st) ==
    LET cw == Cardinality({w \in Workers : st.proc[w].status # "none"}) + 1
    IN  [proc |-> [st.proc EXCEPT ![cw] = Running],
         tr   |-> st.tr \o <<Eff("fork", "", cw, 0, ""),
                            Eff("emit", "start", cw, 0, ""),
                            Eff("on", "disconnect", cw, 0, "")>>,
         obs  |-> st.obs \cup {cw}]

\* for (let i = 0; i < this.instances; ++i) this.fork();
RECURSIVE ForkLoop(_, _, _)
ForkLoop(i, n, st) == IF i < n THEN ForkLoop(i + 1, n, fork(st)) ELSE st

\* ------------------------------------------------- start(): handler and exit
\* handler() gone wrong: the braces of the `exit` branch are missing, so that
\* process.exit() runs whatever the policy is.
handlerExitsAlways(evOpts, pid, err) ==
    IF Includes(evOpts.error, "throw")
    THEN [out |-> <<Eff("throw", "", pid, err, "")>>, ends |-> TRUE, code |-> 7]
    ELSE LET logged == IF Includes(evOpts.error, "log")
                       THEN <<Eff("log", "error", pid, err, "")>> ELSE <<>>
             gone == IF Includes(evOpts.error, "exit")
                     THEN <<Eff("emit", "disconnect", pid, err, "")>> ELSE <<>>
         IN  [out |-> logged \o gone \o <<Eff("exit", "", pid, err, "")>>,
              ends |-> TRUE, code |-> 0]

\* handler() gone wrong: the `exit` branch signals the disconnect but does
\* not call process.exit(), and falls through to the notification.
handlerNoExit(evOpts, pid, err) ==
    IF Includes(evOpts.error, "throw")
    THEN [out |-> <<Eff("throw", "", pid, err, "")>>, ends |-> TRUE, code |-> 7]
    ELSE LET logged == IF Includes(evOpts.error, "log")
                       THEN <<Eff("log", "error", pid, err, "")>> ELSE <<>>
             gone == IF Includes(evOpts.error, "exit")
                     THEN <<Eff("emit", "disconnect", pid, err, "")>> ELSE <<>>
         IN  [out |-> logged \o gone \o <<Eff("emit", "error", pid, err, "")>>,
              ends |-> FALSE, code |-> 0]

\* handler() with the `log` branch of the earlier version: the line is
\* written and then process.exit() is called.
handlerLogExits(evOpts, pid, err) ==
    IF Includes(evOpts.error, "throw")
    THEN [out |-> <<Eff("throw", "", pid, err, "")>>, ends |-> TRUE, code |-> 7]
    ELSE IF Includes(evOpts.error, "log")
         THEN [out |-> <<Eff("log", "error", pid, err, ""), Eff("exit", "", pid, err, "")>>,
               ends |-> TRUE, code |-> 0]
         ELSE IF Includes(evOpts.error, "exit")
              THEN [out |-> <<Eff("emit", "disconnect", pid, err, ""),
                              Eff("exit", "", pid, err, "")>>,
                    ends |-> TRUE, code |-> 0]
              ELSE [out |-> <<Eff("emit", "error", pid, err, "")>>,
                    ends |-> FALSE, code |-> 0]

\* The uncaught-error handler of start(), run in process pid for error err:
\* the effects in program order, and whether the process ends (with which
\* code; a throw inside the uncaughtException handler is fatal, code 7).
handler(evOpts, pid, err) ==
    IF Includes(evOpts.error, "throw")
    THEN [out |-> <<Eff("throw", "", pid, err, "")>>, ends |-> TRUE, code |-> 7]
    ELSE LET logged == IF Includes(evOpts.error, "log")
                       THEN <<Eff("log", "error", pid, err, "")>> ELSE <<>>
         IN  IF Includes(evOpts.error, "exit")
             THEN [out |-> logged \o <<Eff("emit", "disconnect", pid, err, ""),
                                       Eff("exit", "", pid, err, "")>>,
                   ends |-> TRUE, code |-> 0]
             ELSE [out |-> logged \o <<Eff("emit", "error", pid, err, "")>>,
                   ends |-> FALSE, code |-> 0]

\* The exit listener gone wrong: one choice per exit as in the earlier
\* if / else-if version, where a logged exit is not notified.
exitSingleChoice(evOpts, w, code, sig) ==
    IF Includes(evOpts.exit, "log")
    THEN [out |-> <<Eff("log", "exit", w, code, sig)>>, ends |-> FALSE]
    ELSE IF Includes(evOpts.exit, "exit")
         THEN [out |-> <<Eff("exit", "", w, code, sig)>>, ends |-> TRUE]
         ELSE [out |-> <<Eff("emit", "exit", w, code, sig)>>, ends |-> FALSE]

\* The cluster "exit" listener of start(), run in the primary for the exit of
\* worker w with (code, sig).
exit(evOpts, w, code, sig) ==
    LET logged == IF Includes(evOpts.exit, "log")
                  THEN <<Eff("log", "exit", w, code, sig)>> ELSE <<>>
    IN  IF Includes(evOpts.exit, "exit")
        THEN [out |-> logged \o <<Eff("exit", "", w, code, sig)>>, ends |-> TRUE]
        ELSE [out |-> logged \o <<Eff("emit", "exit", w, code, sig)>>, ends |-> FALSE]

\* listenOpts.port || 8080: undefined and 0 are falsy.
ListenPort(listenOpts) ==
    IF listenOpts.port.kind = "unset" \/ listenOpts.port.n = 0
    THEN DefaultPort
    ELSE listenOpts.port.n

\* ------------------------------------------------------------------- inputs
FirstArgs == {"function", "undefined", "object"}
Ports == {0, 9000}
ListenValues == {NoListen, Listen(NoPort)} \cup {Listen(Port(p)) : p \in Ports}
ErrorSlots ==
    {Unset} \cup {Single(v) : v \in ErrorEvent}
            \cup {List(s) : s \in SeqsUpTo(ErrorEvent, MaxPolicyLen)}
ExitSlots ==
    {Unset} \cup {Single(v) : v \in ExitEvent}
            \cup {List(s) : s \in SeqsUpTo(ExitEvent, MaxPolicyLen)}

\* Options values with every shape of listen, and events absent or partial.
ShapeOptions ==
    {Options(ev, l) : ev \in {NoEvents, Events(Unset, Unset), Events(Single("log"), Unset),
                              Events(Unset, List(<<"log">>))},
                      l \in ListenValues}
\* Pairs of policies: every error policy with an exit policy under which the
\* primary notifies or ends, and every exit policy with an error policy under
\* which a failing worker ends (by process.exit() or by the re-raised error).
BaseExitSlots == {List(<<>>), List(<<"exit">>)}
BaseErrorSlots == {List(<<"exit">>), List(<<"throw">>)}
PolicyPairs == (ErrorSlots \X BaseExitSlots) \cup (BaseErrorSlots \X ExitSlots)
PolicyOptions == {Options(Events(pp[1], pp[2]), NoListen) : pp \in PolicyPairs}
OptionValues == ShapeOptions \cup PolicyOptions

\* new(app), new(app, n), new(app, options), new(app, n, options)
NextArgs == {Undefined} \cup {Num(n) : n \in 0..MaxWorkers} \cup {Obj(o) : o \in OptionValues}
LastArgs(next) ==
    IF next.kind = "number" THEN {Undefined} \cup {Obj(o) : o \in ShapeOptions}
    ELSE {Undefined}

\* -------------------------------------------------------------------- state
Init ==
    /\ pc = "new"
    /\ args = [first |-> "undefined", next |-> Undefined, last |-> Undefined]
    /\ callerOpts = NoOptions
    /\ cpus \in 1..MaxWorkers
    /\ cls = NoCluster
    /\ proc = [p \in Procs |-> IF p = Primary THEN Running ELSE NoProc]
    /\ trace = [p \in Procs |-> <<>>]
    /\ observers = {}
    /\ pending = {}
    /\ errs = [w \in Workers |-> 0]

\* new Cluster(first, next, last) in the primary's script. A first argument
\* that is not a function throws before anything is assigned; the uncaught
\* throw ends the script. Otherwise the instance is built, and the options
\* object the caller passed is the one normalizeOptions wrote to.
Construct(first, next, last) ==
    /\ pc = "new"
    /\ args' = [first |-> first, next |-> next, last |-> last]
    /\ IF NotInvocable(first)
       THEN /\ pc' = "threw"
            /\ cls' = NoCluster
            /\ callerOpts' = IF last.kind = "object" THEN last.opts ELSE next.opts
            /\ proc' = [proc EXCEPT ![Primary].status = "dead", ![Primary].code = 1]
       ELSE /\ pc' = "constructed"
            /\ cls' = NewCluster(first, next, last, cpus)
            /\ callerOpts' =
                 LET given == IF last.kind = "object" THEN last.opts ELSE next.opts
                 IN  IF ResolveArgs(next, last).options.kind = "unset"
                     THEN given
                     ELSE cls'.options
            /\ proc' = proc
    /\ UNCHANGED <<cpus, trace, observers, pending, errs>>

\* start() gone wrong: the `else` is missing, so that the primary, after the
\* fork loop, also installs the handler and listens.
startFallsThrough(p) ==
    /\ pc = "constructed"
    /\ Alive(p)
    /\ ~proc[p].started
    /\ LET st == IF p = Primary
                 THEN ForkLoop(0, cls.instances,
                               [proc |-> proc, tr |-> trace[p], obs |-> observers])
                 ELSE [proc |-> proc, tr |-> trace[p], obs |-> observers]
           subscribed == IF p = Primary THEN <<Eff("on", "exit", p, 0, "")>> ELSE <<>>
       IN  /\ proc' = [st.proc EXCEPT ![p].started = TRUE,
                                      ![p].exitListener = (p = Primary),
                                      ![p].handler = TRUE,
                                      ![p].listen = Port(ListenPort(cls.options.listen))]
           /\ trace' = [trace EXCEPT ![p] = st.tr \o subscribed \o
                    <<Eff("on", "uncaughtException", p, 0, ""),
                      Eff("listen", "", p, ListenPort(cls.options.listen), "")>>]
           /\ observers' = st.obs
    /\ UNCHANGED <<pc, args, callerOpts, cpus, cls, pending, errs>>

\* start() in process p. In the primary: the fork loop, then
\* cluster.on("exit", exit). In a worker: process.on("uncaughtException",
\* handler), then createServer(...).listen(port || 8080, ...).
start(p) ==
    /\ pc = "constructed"
    /\ Alive(p)
    /\ ~proc[p].started
    /\ IF p = Primary
       THEN LET st == ForkLoop(0, cls.instances,
                               [proc |-> proc, tr |-> trace[p], obs |-> observers])
            IN  /\ proc' = [st.proc EXCEPT ![p].started = TRUE, ![p].exitListener = TRUE]
                /\ trace' = [trace EXCEPT ![p] = st.tr \o <<Eff("on", "exit", p, 0, "")>>]
                /\ observers' = st.obs
       ELSE /\ proc' = [proc EXCEPT ![p].started = TRUE,
                                    ![p].handler = TRUE,
                                    ![p].listen = Port(ListenPort(cls.options.listen))]
            /\ trace' = [trace EXCEPT ![p] = @ \o
                    <<Eff("on", "uncaughtException", p, 0, ""),
                      Eff("listen", "", p, ListenPort(cls.options.listen), "")>>]
            /\ observers' = observers
    /\ UNCHANGED <<pc, args, callerOpts, cpus, cls, pending, errs>>

\* An uncaught error in worker w: the runtime calls handler(err).
UncaughtError(w) ==
    /\ Alive(w)
    /\ proc[w].handler
    /\ errs[w] < MaxErrors
    /\ LET err == errs[w] + 1
           r == handler(cls.options.events, w, err)
       IN  /\ errs' = [errs EXCEPT ![w] = err]
           /\ trace' = [trace EXCEPT ![w] = @ \o r.out]
           /\ IF r.ends
              THEN /\ proc' = [proc EXCEPT ![w].status = "dead", ![w].code = r.code]
                   /\ pending' = pending \cup Death(w, r.code)
              ELSE UNCHANGED <<proc, pending>>
    /\ UNCHANGED <<pc, args, callerOpts, cpus, cls, observers>>

\* The exit listener with the restart of the earlier version: when the
\* primary goes on after a worker's exit, it forks a replacement.
WorkerExitRestarts(e) ==
    /\ e \in pending
    /\ e.ev = "exit"
    /\ Alive(Primary)
    /\ proc[Primary].exitListener
    /\ LET r == exit(cls.options.events, e.w, e.code, e.sig)
           cw == Cardinality({w \in Workers : proc[w].status # "none"}) + 1
       IN  IF r.ends
           THEN /\ trace' = [trace EXCEPT ![Primary] = @ \o r.out]
                /\ proc' = [proc EXCEPT ![Primary].status = "dead"]
           ELSE IF cw \in Workers
                THEN /\ trace' = [trace EXCEPT ![Primary] =
                                    @ \o r.out \o <<Eff("fork", "", cw, 0, "")>>]
                     /\ proc' = [proc EXCEPT ![cw] = Running]
                ELSE /\ trace' = [trace EXCEPT ![Primary] = @ \o r.out]
                     /\ proc' = proc
    /\ pending' = pending \ {e}
    /\ UNCHANGED <<pc, args, callerOpts, cpus, cls, observers, errs>>

\* The runtime reports a worker's exit to the primary: cluster emits "exit"
\* and the listener registered by start() runs.
WorkerExit(e) ==
    /\ e \in pending
    /\ e.ev = "exit"
    /\ Alive(Primary)
    /\ proc[Primary].exitListener
    /\ LET r == exit(cls.options.events, e.w, e.code, e.sig)
       IN  /\ trace' = [trace EXCEPT ![Primary] = @ \o r.out]
           /\ proc' = IF r.ends
                      THEN [proc EXCEPT ![Primary].status = "dead"]
                      ELSE proc
    /\ pending' = pending \ {e}
    /\ UNCHANGED <<pc, args, callerOpts, cpus, cls, observers, errs>>

\* The observer gone wrong: it disconnects the worker it was registered on,
\* cw.disconnect(), instead of the whole cluster.
WorkerDisconnectOne(e) ==
    /\ e \in pending
    /\ e.ev = "disconnect"
    /\ Alive(Primary)
    /\ IF e.w \in observers
       THEN /\ trace' = [trace EXCEPT ![Primary] = @ \o <<Eff("disconnect", "worker", e.w, 0, "")>>]
            /\ proc' = [p \in Procs |->
                          IF p = e.w /\ Alive(p)
                          THEN [proc[p] EXCEPT !.disconnecting = TRUE]
                          ELSE proc[p]]
       ELSE UNCHANGED <<trace, proc>>
    /\ pending' = pending \ {e}
    /\ UNCHANGED <<pc, args, callerOpts, cpus, cls, observers, errs>>

\* The runtime reports a worker's disconnect to the primary: the observer
\* registered by fork() calls cluster.disconnect(), which asks every live
\* worker to disconnect.
WorkerDisconnect(e) ==
    /\ e \in pending
    /\ e.ev = "disconnect"
    /\ Alive(Primary)
    /\ IF e.w \in observers
       THEN /\ trace' = [trace EXCEPT ![Primary] = @ \o <<Eff("disconnect", "cluster", e.w, 0, "")>>]
            /\ proc' = [p \in Procs |->
                          IF p \in Workers /\ Alive(p)
                          THEN [proc[p] EXCEPT !.disconnecting = TRUE]
                          ELSE proc[p]]
       ELSE UNCHANGED <<trace, proc>>
    /\ pending' = pending \ {e}
    /\ UNCHANGED <<pc, args, callerOpts, cpus, cls, observers, errs>>

\* A worker asked to disconnect closes its server and its channel and ends.
Disconnected(w) ==
    /\ w \in Workers
    /\ Alive(w)
    /\ proc[w].disconnecting
    /\ proc' = [proc EXCEPT ![w].status = "dead", ![w].code = 0]
    /\ pending' = pending \cup Death(w, 0)
    /\ UNCHANGED <<pc, args, callerOpts, cpus, cls, trace, observers, errs>>

\* A worker whose primary has ended (process.exit() in the exit listener)
\* loses its channel and ends.
Orphaned(w) ==
    /\ w \in Workers
    /\ Alive(w)
    /\ ~Alive(Primary)
    /\ proc' = [proc EXCEPT ![w].status = "dead", ![w].code = 0]
    /\ UNCHANGED <<pc, args, callerOpts, cpus, cls, trace, observers, pending, errs>>

\* The script's `new Cluster(...)`, over the calls the four overloads allow.
New ==
    /\ pc = "new"
    /\ \E first \in FirstArgs, next \in NextArgs :
         \E last \in LastArgs(next) : Construct(first, next, last)

Next ==
    \/ New
    \/ \E p \in Procs : start(p)
    \/ \E w \in Workers : UncaughtError(w)
    \/ \E e \in pending : WorkerExit(e)
    \/ \E e \in pending : WorkerDisconnect(e)
    \/ \E w \in Workers : Disconnected(w)
    \/ \E w \in Workers : Orphaned(w)

Spec == Init /\ [][Next]_vars

\* ===================================================================== claims
IsFork(e) == e.op = "fork"
IsStartEmit(e) == e.op = "emit" /\ e.ev = "start"
Forks == SelectSeq(trace[Primary], IsFork)
StartEmits == SelectSeq(trace[Primary], IsStartEmit)

\* C1: for every workerCount k >= 1, one start() in the primary emits exactly
\* k "start" notifications, the i-th carrying the handle of the i-th fork,
\* and the handles are pairwise distinct.
C1_StartNotifications ==
    (proc[Primary].started /\ cls.instances >= 1) =>
        LET s == StartEmits
            f == Forks
        IN  /\ Len(s) = cls.instances
            /\ Len(f) = cls.instances
            /\ \A i \in 1..Len(s) : s[i].w = f[i].w
            /\ \A i, j \in 1..Len(s) : i # j => s[i].w # s[j].w

\* C1 witness: the primary has started a pool of several workers and has
\* notified once per worker.
C1_Witness ==
    /\ proc[Primary].started
    /\ cls.instances = MaxWorkers
    /\ MaxWorkers >= 2
    /\ Len(StartEmits) = MaxWorkers

ErrorPolicy == cls.options.events.error
ExitPolicy == cls.options.events.exit

\* The effects of handler(err) in worker w for its err-th uncaught error.
HandlerRun(w, err) ==
    LET InRun(e) ==
            /\ e.n = err
            /\ (e.op \in {"throw", "log", "exit"}
                \/ (e.op = "emit" /\ e.ev \in {"disconnect", "error"}))
    IN  SelectSeq(trace[w], InRun)
\* The effects of the exit listener in the primary for the exit of worker w.
ExitRun(w) ==
    LET InRun(e) ==
            /\ e.w = w
            /\ (e.op = "exit" \/ (e.op \in {"log", "emit"} /\ e.ev = "exit"))
    IN  SelectSeq(trace[Primary], InRun)
IsNotify(e) == e.op = "emit" /\ e.ev \in {"error", "exit"}
Has(run, op, ev) == \E i \in 1..Len(run) : run[i].op = op /\ run[i].ev = ev

\* C2: under exit policy [log, exit], a worker exit handled by the primary
\* leaves exactly one log line for that worker, then ends the primary, and
\* the "exit" notification for that worker was emitted before the primary
\* ended.
C2_LogExitNotifies ==
    (pc = "constructed" /\ ExitPolicy = List(<<"log", "exit">>)) =>
        \A w \in Workers :
            LET run == ExitRun(w)
            IN  run # <<>> =>
                  /\ Cardinality({i \in 1..Len(run) : run[i].op = "log"}) = 1
                  /\ \E i, k \in 1..Len(run) : i < k /\ run[i].op = "log" /\ run[k].op = "exit"
                  /\ \E j, k \in 1..Len(run) : j < k /\ IsNotify(run[j]) /\ run[k].op = "exit"
                  /\ ~Alive(Primary)

\* C3: every uncaught error handled in a worker, under every error policy,
\* is notified: the worker's Cluster emits "error" with that error and the
\* process.
C3_ErrorAlwaysNotified ==
    \A w \in Workers : \A err \in 1..errs[w] :
        \E i \in 1..Len(trace[w]) : trace[w][i] = Eff("emit", "error", w, err, "")

RECURSIVE InOrderError(_, _, _, _)
InOrderError(s, i, pid, err) ==
    IF i > Len(s) THEN <<>>
    ELSE IF s[i] = "throw" THEN <<Eff("throw", "", pid, err, "")>>
    ELSE IF s[i] = "exit" THEN <<Eff("emit", "disconnect", pid, err, ""),
                                 Eff("exit", "", pid, err, "")>>
    ELSE IF s[i] = "log" THEN <<Eff("log", "error", pid, err, "")>>
                              \o InOrderError(s, i + 1, pid, err)
    ELSE InOrderError(s, i + 1, pid, err)

\* The same for an exit event: exit ends the primary.
RECURSIVE InOrderExit(_, _, _, _, _)
InOrderExit(s, i, w, code, sig) ==
    IF i > Len(s) THEN <<>>
    ELSE IF s[i] = "exit" THEN <<Eff("exit", "", w, code, sig)>>
    ELSE IF s[i] = "log" THEN <<Eff("log", "exit", w, code, sig)>>
                              \o InOrderExit(s, i + 1, w, code, sig)
    ELSE InOrderExit(s, i + 1, w, code, sig)

NotNotify(e) == ~IsNotify(e)

\* C5: for one error or exit event the configured actions take effect in the
\* order they are listed ([exit, log] ends the process before logging,
\* [log, throw] logs before re-raising), and the notification, when there is
\* one, comes after all of them.
C5_ActionsInListedOrder ==
    pc = "constructed" =>
        /\ \A w \in Workers : \A err \in 1..errs[w] :
             LET run == HandlerRun(w, err)
             IN  /\ SelectSeq(run, NotNotify) = InOrderError(ErrorPolicy.val, 1, w, err)
                 /\ \A i \in 1..Len(run) : IsNotify(run[i]) => i = Len(run)
        /\ \A w \in Workers :
             LET run == ExitRun(w)
             IN  run # <<>> =>
                   /\ SelectSeq(run, NotNotify)
                        = InOrderExit(ExitPolicy.val, 1, w, run[1].n, run[1].sig)
                   /\ \A i \in 1..Len(run) : IsNotify(run[i]) => i = Len(run)

\* Whether action a shows in the effects of a run.
TookEffect(run, a) ==
    IF a = "log" THEN \E i \in 1..Len(run) : run[i].op = "log"
    ELSE IF a = "throw" THEN \E i \in 1..Len(run) : run[i].op = "throw"
    ELSE IF a = "exit" THEN \E i \in 1..Len(run) : run[i].op = "exit"
    ELSE TRUE

\* C6: policy actions are additive: [log, exit] on an error both logs and
\* ends the worker, and every listed action takes effect unless an action
\* listed before it has ended the process.
C6_ActionsAdditive ==
    pc = "constructed" =>
        /\ \A w \in Workers : \A err \in 1..errs[w] :
             LET run == HandlerRun(w, err)
                 s == ErrorPolicy.val
             IN  \A i \in 1..Len(s) :
                    (\A j \in 1..(i - 1) : s[j] \notin {"throw", "exit"})
                        => TookEffect(run, s[i])
        /\ \A w \in Workers :
             LET run == ExitRun(w)
                 s == ExitPolicy.val
             IN  run # <<>> =>
                   \A i \in 1..Len(s) :
                      (\A j \in 1..(i - 1) : s[j] # "exit") => TookEffect(run, s[i])

\* The call was new(app, options) or new(app, n, options) with n >= 1, and
\* the options value the caller passed in it.
OptionsPassed ==
    \/ args.next.kind = "object"
    \/ (args.next.kind = "number" /\ args.next.num >= 1 /\ args.last.kind = "object")
PassedOptions == IF args.next.kind = "object" THEN args.next.opts ELSE args.last.opts

\* A policy slot as passed and as normalized: a singular value v becomes [v],
\* an array stays as it is.
WrappedOrKept(passed, normalized) ==
    /\ passed.kind = "single" => normalized = [kind |-> "list", val |-> <<passed.val[1]>>]
    /\ passed.kind = "list" => normalized = passed

\* C7: normalization turns every singular events.error / events.exit value v
\* into [v] and leaves an array unchanged; normalizing the normalized
\* configuration again changes nothing.
C7_WrapAndIdempotent ==
    pc = "constructed" =>
        /\ (OptionsPassed /\ PassedOptions.events.kind = "record") =>
              /\ WrappedOrKept(PassedOptions.events.error, ErrorPolicy)
              /\ WrappedOrKept(PassedOptions.events.exit, ExitPolicy)
        /\ normalizeOptions(cls.options, Num(cls.instances), cpus)
              = [options |-> cls.options, instances |-> cls.instances]

\* C7 witness: a call that passed a singular error policy and an exit policy
\* array has been normalized.
C7_Witness ==
    /\ pc = "constructed"
    /\ OptionsPassed
    /\ PassedOptions.events.error.kind = "single"
    /\ PassedOptions.events.exit.kind = "list"
    /\ Len(PassedOptions.events.exit.val) >= 1

\* this.options is the options object the caller passed, with what the
\* caller set in it.
IsConfiguration(o) ==
    /\ cls.options = callerOpts
    /\ o.listen.kind = "record" => cls.options.listen = o.listen
    /\ o.events.kind = "record" =>
          /\ WrappedOrKept(o.events.error, ErrorPolicy)
          /\ WrappedOrKept(o.events.exit, ExitPolicy)

\* C8: with two arguments a number is the worker count and an options value
\* is the configuration; with three arguments the second is the worker
\* count and the third the configuration, whatever the second is: with 0 the
\* count is the CPU count and the third argument is still the configuration.
C8_ArgumentResolution ==
    pc = "constructed" =>
        /\ (args.next.kind = "number" /\ args.next.num >= 1) => cls.instances = args.next.num
        /\ (args.next.kind = "number" /\ args.next.num = 0) => cls.instances = cpus
        /\ args.next.kind = "object" => (cls.instances = cpus /\ IsConfiguration(args.next.opts))
        /\ args.last.kind = "object" => IsConfiguration(args.last.opts)

\* The port the caller passed in listen.port, if any.
PortPassed == OptionsPassed /\ PassedOptions.listen.port.kind = "number"

\* C9: new(app, n) with n >= 1 has workerCount n and port 8080;
\* new(app, {listen: {port: p}}) has workerCount the CPU count and port p; a
\* worker listens on 8080 when no listen.port was passed and on the passed
\* port, unchanged, otherwise.
C9_Defaults ==
    pc = "constructed" =>
        /\ (args.next.kind = "number" /\ args.next.num >= 1) => cls.instances = args.next.num
        /\ args.next.kind = "object" => cls.instances = cpus
        /\ \A w \in Workers : proc[w].started =>
              /\ (args.next.kind # "object" /\ args.last.kind # "object")
                    => proc[w].listen = Port(8080)
              /\ (OptionsPassed /\ ~PortPassed) => proc[w].listen = Port(8080)
              /\ PortPassed => proc[w].listen = PassedOptions.listen.port

\* C10: a first argument that is missing or not a function makes the
\* constructor throw: no Cluster instance results, start() is never run, and
\* nothing is forked and nothing listens.
C10_NoAppThrows ==
    (pc # "new" /\ args.first # "function") =>
        /\ pc = "threw"
        /\ cls = NoCluster
        /\ \A p \in Procs : ~proc[p].started /\ trace[p] = <<>>
        /\ \A w \in Workers : proc[w].status = "none"

\* C10 witness: the constructor was called with a value that is not a
\* function, and has thrown.
C10_Witness == pc = "threw" /\ args.first = "object"

\* The policy slots of the call as the caller passed them: unset when no
\* options value, or no events in it, was passed.
PassedError == IF OptionsPassed THEN PassedOptions.events.error ELSE Unset
PassedExit == IF OptionsPassed THEN PassedOptions.events.exit ELSE Unset
\* The call was one whose options argument, if any, the constructor takes.
PlainCall == OptionsPassed \/ (args.next.kind # "object" /\ args.last.kind # "object")

C12_OptionsUntouched ==
    (pc # "new" /\ (args.next.kind = "object" \/ args.last.kind = "object")) =>
        callerOpts = IF args.last.kind = "object" THEN args.last.opts ELSE args.next.opts

\* The effects in process p's trace whose operation is op on event ev.
Count(p, op, ev) ==
    Cardinality({i \in 1..Len(trace[p]) : trace[p][i].op = op /\ trace[p][i].ev = ev})

\* The steps of start() and fork() that belong to a role path.
IsRoleStep(e) == e.op \in {"fork", "on", "listen"}

\* C13: a call to start() takes exactly one of the two role paths. In the
\* primary it forks and subscribes to worker exits, and neither installs the
\* uncaught-error handler nor listens; in a worker it installs the handler
\* and listens, and neither forks nor subscribes to worker exits.
C13_OneRolePath ==
    \A p \in Procs : proc[p].started =>
        LET t == trace[p]
            n == 3 * cls.instances
        IN  IF p = Primary
            THEN /\ Len(t) > n
                 /\ t[n + 1] = Eff("on", "exit", p, 0, "")
                 /\ \A i \in 1..n :
                       IsRoleStep(t[i]) => (t[i].op = "fork" \/ t[i].ev = "disconnect")
                 /\ \A i \in (n + 2)..Len(t) : ~IsRoleStep(t[i])
                 /\ Len(Forks) = cls.instances
                 /\ proc[p].exitListener
                 /\ ~proc[p].handler
                 /\ proc[p].listen = NoPort
            ELSE /\ Len(t) >= 2
                 /\ t[1] = Eff("on", "uncaughtException", p, 0, "")
                 /\ t[2].op = "listen"
                 /\ \A i \in 3..Len(t) : ~IsRoleStep(t[i])
                 /\ proc[p].handler
                 /\ proc[p].listen = Port(t[2].n)
                 /\ ~proc[p].exitListener

\* C13 witness: start() has run in the primary, which forked, and in a
\* worker.
C13_Witness ==
    /\ proc[Primary].started
    /\ Count(Primary, "fork", "") >= 1
    /\ \E w \in Workers : proc[w].started

\* C14: in the pool loop the forks are sequential and interleaved with their
\* notifications: the i-th fork is followed at once, and so before the next
\* fork, by the "start" notification for its worker and by the registration
\* of that worker's disconnect observer, and no two forks give the same
\* worker.
C14_ForksInterleaved ==
    proc[Primary].started =>
        LET t == trace[Primary]
            n == Len(trace[Primary])
        IN  \A k \in 1..n : IsFork(t[k]) =>
              /\ k + 2 <= n
              /\ {t[k + 1], t[k + 2]} = {Eff("emit", "start", t[k].w, 0, ""),
                                         Eff("on", "disconnect", t[k].w, 0, "")}
              /\ \A j \in (k + 1)..n : IsFork(t[j]) => t[j].w # t[k].w

\* C14 witness: the pool loop has forked several workers.
C14_Witness ==
    /\ proc[Primary].started
    /\ MaxWorkers >= 2
    /\ Len(Forks) = MaxWorkers

IsExitEmit(e) == e.op = "emit" /\ e.ev = "exit"
\* The "exit" notifications the primary's Cluster has emitted, in order.
ExitEmits == SelectSeq(trace[Primary], IsExitEmit)

Forked == {w \in Workers : proc[w].status # "none"}
IsTeardown(e) == e.op = "disconnect" /\ e.ev = "cluster"

\* C16: every forked worker has a disconnect observer; every step in which
\* the disconnect of a worker is delivered to the primary is a cluster-wide
\* disconnect, asking every live worker to disconnect; and no fork follows
\* a cluster-wide disconnect.
C16_DisconnectTearsDownAll ==
    [][/\ proc[Primary].started' =>
             /\ observers' = Forked'
             /\ Count(Primary, "on", "disconnect")' = Cardinality(Forked')
       /\ \A e \in pending \ pending' : e.ev = "disconnect" =>
             /\ trace'[Primary] = Append(trace[Primary], Eff("disconnect", "cluster", e.w, 0, ""))
             /\ \A w \in Workers : Alive(w) => proc'[w].disconnecting
       /\ LET t == trace'[Primary]
          IN  \A i \in 1..Len(t) : IsTeardown(t[i]) =>
                 \A j \in (i + 1)..Len(t) : ~IsFork(t[j])
      ]_vars

\* C16 witness: the disconnect of one worker has been delivered, and
\* another worker, alive then, has been asked to disconnect.
C16_Witness ==
    LET t == trace[Primary]
    IN  \E i \in 1..Len(t) :
          /\ IsTeardown(t[i])
          /\ \E w \in Workers : w # t[i].w /\ proc[w].disconnecting

\* In run, an effect `first` comes before the effect `then`.
Precedes(run, first, then) ==
    \E i, k \in 1..Len(run) : i < k /\ run[i] = first /\ run[k] = then

ExitOnErrorOnly ==
    /\ pc = "constructed"
    /\ ErrorPolicy = List(<<"exit">>)
    /\ ~Includes(ExitPolicy, "exit")
\* The primary has run a cluster-wide disconnect.
TornDown == \E i \in 1..Len(trace[Primary]) : IsTeardown(trace[Primary][i])

\* C18 as claimed: under error policy [exit] and an exit policy without
\* "exit", an uncaught error ends just the worker it happened in: the
\* primary and every other worker stay alive and connected.
C18_OnlyFailingWorkerEnds ==
    ExitOnErrorOnly =>
        /\ Alive(Primary)
        /\ \A w \in Forked :
              IF errs[w] >= 1 THEN ~Alive(w) ELSE Alive(w) /\ ~proc[w].disconnecting

\* C18 amended: under error policy [exit] and an exit policy without "exit",
\* an uncaught error ends the worker it happened in and the primary stays
\* alive; the other workers stay alive and connected only until the failing
\* worker's disconnect is delivered to the primary: from then on every
\* worker still alive has been asked to disconnect.
C18_FailureDisconnectsAll ==
    ExitOnErrorOnly =>
        /\ Alive(Primary)
        /\ \A w \in Forked : errs[w] >= 1 =>
              /\ ~Alive(w)
              /\ Note("disconnect", w, 0, "null") \notin pending =>
                    /\ TornDown
                    /\ \A v \in Workers : Alive(v) => proc[v].disconnecting
        /\ ~TornDown =>
              \A v \in Forked : errs[v] = 0 => (Alive(v) /\ ~proc[v].disconnecting)

\* C18 witness: under that policy one worker has failed and another worker,
\* which has not, has been asked to disconnect.
C18_Witness ==
    /\ ExitOnErrorOnly
    /\ \E w, v \in Workers :
          /\ errs[w] = 1
          /\ errs[v] = 0
          /\ proc[v].disconnecting

\* The workers alive now.
Live == {w \in Workers : Alive(w)}

\* C19: once start() has run in the primary, the forks ever issued number
\* workerCount in every state, under every exit policy; the live workers
\* never number more than workerCount, and no step after the pool loop
\* (a worker's error, exit or disconnect) adds a live worker.
C19_NoRestart ==
    [][proc[Primary].started' =>
          /\ Len(Forks)' = cls'.instances
          /\ Cardinality(Forked') = cls'.instances
          /\ Cardinality(Live') <= cls'.instances
          /\ proc[Primary].started => Live' \subseteq Live
      ]_vars

\* C19 witness: a pool smaller than the host allows has been started, the
\* exit of one of its workers has been handled, and the primary goes on.
C19_Witness ==
    /\ proc[Primary].started
    /\ Alive(Primary)
    /\ cls.instances < MaxWorkers
    /\ Len(Forks) = cls.instances
    /\ \E w \in Workers : ExitRun(w) # <<>>

\* The error policy is built only from "log" and "continue" (or is unset).
LogContinueOnly ==
    /\ pc = "constructed"
    /\ ~Includes(ErrorPolicy, "throw")
    /\ ~Includes(ErrorPolicy, "exit")

====
